---- MODULE Spec2Model ----
(***************************************************************************)
(* Cash.io privacy bridge: the authorization and bookkeeping state machine *)
(* of the two non-EVM contracts,                                           *)
(*   near   : packages/non-evm-contracts/near/src/lib.rs                   *)
(*   solana : packages/non-evm-contracts/solana/programs/cashio-bridge/    *)
(*            src/lib.rs                                                   *)
(* One deployment is one behaviour: Init picks the chain, and from then on *)
(* only that contract's entry points run.  Every entry point is one        *)
(* action: the host executes a call to completion and discards all of its  *)
(* writes when it panics / returns Err.  The structured events (EVENT_JSON *)
(* lines on NEAR, emit! on Solana) form an append-only log, of which       *)
(* `emitted` keeps the entries the most recent emitting call appended.     *)
(* Amounts are in scaled units; timestamps and PDA bumps are not modelled. *)
(***************************************************************************)
EXTENDS Integers, Sequences, FiniteSets, TLC

VARIABLES
    chain,            \* "near" or "solana": which contract this deployment is
    near,             \* NEAR: the CashioBridge contract state
    account_balance,  \* NEAR: env::account_balance() of the contract account
    receipts,         \* NEAR: transfer receipts created by process_withdrawal, in flight
    bridge_state,     \* Solana: the BridgeState account
    guardian,         \* Solana: the Guardian accounts, by account address
    deposit,          \* Solana: the Deposit accounts, by nonce seed
    token_deposit,    \* Solana: the TokenDeposit accounts, by nonce seed
    withdrawal,       \* Solana: the Withdrawal accounts, by withdrawal_hash seed
    vault,            \* Solana: lamports of the vault PDA
    delivered,        \* claim identifiers whose funds reached the recipient
    emitted           \* the end of the event log: what the last emitting call appended

vars == <<chain, near, account_balance, receipts, bridge_state, guardian, deposit,
          token_deposit, withdrawal, vault, delivered, emitted>>

nearVars == <<near, account_balance, receipts>>
solVars == <<bridge_state, guardian, deposit, token_deposit, withdrawal, vault>>

----------------------------------------------------------------------------
(* Bounds and input domains *)

MaxThreshold == 1       \* initialization is tried with thresholds 0 .. MaxThreshold
MaxDeposits == 2        \* deposits admitted per deployment
MaxGuardianCount == 2   \* cap on the Solana guardian_count counter
InitialBalance == 2     \* funds the contract account / vault holds at deployment

\* near/src/lib.rs MIN_DEPOSIT, MAX_DEPOSIT and solana lib.rs MIN_DEPOSIT,
\* MAX_DEPOSIT, in scaled units (the real values exceed TLC's integers; only
\* their order matters to the code).  The Solana range is scaled down to a
\* single admissible amount: below it, on both bounds, above it.
MIN_DEPOSIT == 2
MAX_DEPOSIT == 3
SOL_MIN_DEPOSIT == 2
SOL_MAX_DEPOSIT == 2

\* NEAR accounts that exist on chain (callers), and transfer receivers:
\* "a2" is a name under which no account exists.
AccountId == {"a0", "a1"}
Recipients == {"a1", "a2"}
ExistingAccounts == {"a0", "a1"}
Depositors == {"a1"}
\* Solana keys: transaction signers; guardian keys, each with the Guardian
\* account a client derives for it (the account is addressed by the key).
Pubkey == {"k0", "k1"}
GuardianKeys == {"k1", "k2"}
SolDepositors == {"k1"}
SolRecipients == {"k1"}
SolPayers == {"k1"}
SolCommitments == {"c1"}

Commitments == {"c1", "c2"}
Hashes == {"w1", "w2"}
DepositAmounts == (MIN_DEPOSIT - 1) .. (MAX_DEPOSIT + 1)
SolDepositAmounts == (SOL_MIN_DEPOSIT - 1) .. (SOL_MAX_DEPOSIT + 1)
WithdrawAmounts == {MIN_DEPOSIT}
Thresholds == 0 .. (MaxThreshold + 1)

\* A guardian approval as submitted: 64 bytes that either verify as the
\* signature of `signer` over this call's claim, or verify as nothing.
Junk == [signer |-> "none"]
Approvals == {Junk} \cup {[signer |-> k] : k \in GuardianKeys}
ApprovalLists == {<<>>} \cup {<<x>> : x \in Approvals}
                     \cup {<<x, y>> : x \in Approvals, y \in Approvals}

NoAccount == [exists |-> FALSE]

\* A call that panics / returns Err: the host discards every write of the
\* call.  The event log is the log of the calls that took effect, so a
\* discarded call appends nothing to it.
Fail == UNCHANGED vars

DepositEvent_nonce_zero(depositor, commitment, amount, nonce) ==
    [event |-> "DepositEvent", depositor |-> depositor,
     commitment |-> commitment, amount |-> amount, nonce |-> 0]

\* The DepositEvent both contracts emit for a native-currency deposit
DepositEvent(depositor, commitment, amount, nonce) ==
    [event |-> "DepositEvent", depositor |-> depositor,
     commitment |-> commitment, amount |-> amount, nonce |-> nonce]

----------------------------------------------------------------------------
(* NEAR contract *)

NearInit(threshold) ==
    [owner_id |-> "a0",
     hub_chain_id |-> "999888777",
     guardian_threshold |-> threshold,
     guardians |-> {},
     processed_deposits |-> {},
     processed_withdrawals |-> {},
     deposits |-> <<>>,
     deposit_nonce |-> 0,
     total_deposited |-> 0,
     total_withdrawn |-> 0,
     is_paused |-> FALSE]

anyone_is_owner(caller) == TRUE

assert_owner_deployer(caller) == caller = NearInit(0).owner_id

assert_owner(caller) == caller = near.owner_id

anyone_is_guardian(caller) == TRUE

assert_guardian(caller) == caller \in near.guardians

lookup_insert_dropped(map, key, value) == map

lookup_insert_overwriting(map, key, value) ==
    [k \in DOMAIN map \cup {key} |-> value]

\* LookupMap::insert: the map with `value` stored under `key`, replacing
\* whatever was stored there
lookup_insert(map, key, value) ==
    [k \in DOMAIN map \cup {key} |-> IF k = key THEN value ELSE map[k]]

get_deposit_off_by_one(nonce) ==
    IF nonce + 1 \in DOMAIN near.deposits THEN near.deposits[nonce + 1] ELSE NoAccount

\* The Deposit record stored under `nonce`, or NoAccount for None
get_deposit(nonce) ==
    IF nonce \in DOMAIN near.deposits THEN near.deposits[nonce] ELSE NoAccount

near_assigned_nonce_after_increment == near.deposit_nonce + 1

\* let nonce = self.deposit_nonce
near_assigned_nonce == near.deposit_nonce

never_used(commitment) == FALSE

is_commitment_used_any(commitment) == near.processed_deposits # {}

is_commitment_used(commitment) == commitment \in near.processed_deposits

never_processed(withdrawal_hash) == FALSE

is_withdrawal_processed(withdrawal_hash) == withdrawal_hash \in near.processed_withdrawals

guardian_count == Cardinality(near.guardians)

near_remove_allowed_off_by_one == guardian_count >= near.guardian_threshold

near_remove_allowed == guardian_count > near.guardian_threshold

near_threshold_unchecked(new_threshold) == TRUE

near_threshold_allowed(new_threshold) == new_threshold <= guardian_count

\* The require! chain of each entry point: "Ok", or the panic message.

near_add_guardian_result(caller, guardian_id) ==
    IF ~assert_owner(caller) THEN "Only owner can call this method"
    ELSE IF guardian_id \in near.guardians THEN "Guardian already exists"
    ELSE "Ok"

near_remove_guardian_result(caller, guardian_id) ==
    IF ~assert_owner(caller) THEN "Only owner can call this method"
    ELSE IF guardian_id \notin near.guardians THEN "Guardian not found"
    ELSE IF ~near_remove_allowed THEN "Cannot remove: would go below threshold"
    ELSE "Ok"

near_update_threshold_result(caller, new_threshold) ==
    IF ~assert_owner(caller) THEN "Only owner can call this method"
    ELSE IF ~near_threshold_allowed(new_threshold)
         THEN "Threshold cannot exceed guardian count"
    ELSE "Ok"

near_admin_result(caller) ==
    IF ~assert_owner(caller) THEN "Only owner can call this method" ELSE "Ok"

near_deposit_result(commitment, amount) ==
    IF near.is_paused THEN "Bridge is paused"
    ELSE IF ~(amount >= MIN_DEPOSIT) THEN "Deposit amount too small"
    ELSE IF ~(amount <= MAX_DEPOSIT) THEN "Deposit amount too large"
    ELSE IF is_commitment_used(commitment) THEN "Commitment already used"
    ELSE "Ok"

\* The Promise returned at the end is a transfer receipt: the host takes its
\* amount out of the contract balance when the receipt is created and fails
\* the call when the balance does not cover it.
near_process_withdrawal_result(caller, withdrawal_hash, amount) ==
    IF near.is_paused THEN "Bridge is paused"
    ELSE IF ~assert_guardian(caller) THEN "Only guardians can call this method"
    ELSE IF is_withdrawal_processed(withdrawal_hash) THEN "Withdrawal already processed"
    ELSE IF amount > account_balance THEN "BalanceExceeded"
    ELSE "Ok"

near_add_guardian(caller, guardian_id) ==
    /\ chain = "near"
    /\ IF near_add_guardian_result(caller, guardian_id) # "Ok" THEN Fail
       ELSE /\ near' = [near EXCEPT !.guardians = @ \cup {guardian_id}]
            /\ emitted' = <<[event |-> "GuardianEvent", guardian |-> guardian_id,
                             action |-> "added", by |-> caller]>>
            /\ UNCHANGED <<chain, account_balance, receipts, solVars, delivered>>

near_remove_guardian(caller, guardian_id) ==
    /\ chain = "near"
    /\ IF near_remove_guardian_result(caller, guardian_id) # "Ok" THEN Fail
       ELSE /\ near' = [near EXCEPT !.guardians = @ \ {guardian_id}]
            /\ emitted' = <<[event |-> "GuardianEvent", guardian |-> guardian_id,
                             action |-> "removed", by |-> caller]>>
            /\ UNCHANGED <<chain, account_balance, receipts, solVars, delivered>>

near_update_threshold(caller, new_threshold) ==
    /\ chain = "near"
    /\ IF near_update_threshold_result(caller, new_threshold) # "Ok" THEN Fail
       ELSE /\ near' = [near EXCEPT !.guardian_threshold = new_threshold]
            /\ UNCHANGED <<chain, account_balance, receipts, solVars, delivered, emitted>>

near_pause_and_reset(caller) ==
    /\ chain = "near"
    /\ IF near_admin_result(caller) # "Ok" THEN Fail
       ELSE /\ near' = [near EXCEPT !.is_paused = TRUE, !.total_withdrawn = near.total_deposited]
            /\ UNCHANGED <<chain, account_balance, receipts, solVars, delivered, emitted>>

near_pause(caller) ==
    /\ chain = "near"
    /\ IF near_admin_result(caller) # "Ok" THEN Fail
       ELSE /\ near' = [near EXCEPT !.is_paused = TRUE]
            /\ UNCHANGED <<chain, account_balance, receipts, solVars, delivered, emitted>>

near_unpause_stuck(caller) == near_pause(caller)

near_unpause(caller) ==
    /\ chain = "near"
    /\ IF near_admin_result(caller) # "Ok" THEN Fail
       ELSE /\ near' = [near EXCEPT !.is_paused = FALSE]
            /\ UNCHANGED <<chain, account_balance, receipts, solVars, delivered, emitted>>

near_transfer_ownership(caller, new_owner) ==
    /\ chain = "near"
    /\ IF near_admin_result(caller) # "Ok" THEN Fail
       ELSE /\ near' = [near EXCEPT !.owner_id = new_owner]
            /\ UNCHANGED <<chain, account_balance, receipts, solVars, delivered, emitted>>

\* deposit(commitment) with `amount` attached; a failed call refunds the attachment.
near_deposit(caller, commitment, amount) ==
    /\ chain = "near"
    /\ near.deposit_nonce < MaxDeposits
    /\ IF near_deposit_result(commitment, amount) # "Ok" THEN Fail
       ELSE LET nonce == near_assigned_nonce IN
            /\ near' = [near EXCEPT
                   !.processed_deposits = @ \cup {commitment},
                   !.deposit_nonce = @ + 1,
                   !.total_deposited = @ + amount,
                   !.deposits = lookup_insert(@, nonce,
                                    [depositor |-> caller,
                                     commitment |-> commitment,
                                     amount |-> amount,
                                     nonce |-> nonce,
                                     processed |-> FALSE])]
            /\ account_balance' = account_balance + amount
            /\ emitted' = <<DepositEvent(caller, commitment, amount, nonce)>>
            /\ UNCHANGED <<chain, receipts, solVars, delivered>>

mark_processed_skipped(processed, withdrawal_hash) == processed

mark_processed_replacing(processed, withdrawal_hash) == {withdrawal_hash}

\* processed_withdrawals.insert(withdrawal_hash), ahead of the transfer
mark_processed(processed, withdrawal_hash) == processed \cup {withdrawal_hash}

near_process_withdrawal(caller, withdrawal_hash, recipient, amount) ==
    /\ chain = "near"
    /\ IF near_process_withdrawal_result(caller, withdrawal_hash, amount) # "Ok" THEN Fail
       ELSE /\ near' = [near EXCEPT
                   !.processed_withdrawals = mark_processed(@, withdrawal_hash),
                   !.total_withdrawn = @ + amount]
            /\ account_balance' = account_balance - amount
            /\ receipts' = receipts \cup {[claim |-> withdrawal_hash,
                                           receiver |-> recipient,
                                           amount |-> amount]}
            /\ emitted' = <<[event |-> "WithdrawalEvent",
                             withdrawal_hash |-> withdrawal_hash,
                             recipient |-> recipient, amount |-> amount]>>
            /\ UNCHANGED <<chain, solVars, delivered>>

\* The host executes a transfer receipt in a later block: it credits the
\* receiver, or, when no such account exists, refunds the contract.  The
\* contract attached no callback, so its state is not touched either way.
near_transfer_receipt(r) ==
    /\ chain = "near"
    /\ r \in receipts
    /\ receipts' = receipts \ {r}
    /\ IF r.receiver \in ExistingAccounts
       THEN /\ delivered' = delivered \cup {r.claim}
            /\ UNCHANGED account_balance
       ELSE /\ account_balance' = account_balance + r.amount
            /\ UNCHANGED delivered
    /\ UNCHANGED <<chain, near, solVars, emitted>>

NearNext ==
    \/ \E c \in ExistingAccounts, g \in AccountId : near_add_guardian(c, g)
    \/ \E c \in ExistingAccounts, g \in AccountId : near_remove_guardian(c, g)
    \/ \E c \in ExistingAccounts, n \in Thresholds : near_update_threshold(c, n)
    \/ \E c \in ExistingAccounts : near_pause(c)
    \/ \E c \in ExistingAccounts : near_unpause(c)
    \/ \E c \in ExistingAccounts, o \in AccountId : near_transfer_ownership(c, o)
    \/ \E c \in Depositors, k \in Commitments, a \in DepositAmounts :
           near_deposit(c, k, a)
    \/ \E c \in ExistingAccounts, h \in Hashes, r \in Recipients, a \in WithdrawAmounts :
           near_process_withdrawal(c, h, r, a)
    \/ \E r \in receipts : near_transfer_receipt(r)

----------------------------------------------------------------------------
(* Solana program.  Anchor validates the accounts of an instruction (the   *)
(* #[derive(Accounts)] constraints) before the handler body runs; a failed *)
(* constraint or an Err from the handler aborts the transaction.           *)

SolInit(threshold) ==
    [exists |-> TRUE,
     authority |-> "k0",
     hub_chain_id |-> 43114,
     guardian_threshold |-> threshold,
     guardian_count |-> 0,
     deposit_nonce |-> 0,
     total_deposited |-> 0,
     total_withdrawn |-> 0,
     is_paused |-> FALSE]

\* has_one = authority (ManageGuardian, AdminAction)
has_one_authority(signer) == bridge_state.authority = signer

\* init: the PDA must not exist yet
init_account(accounts, seed) == ~accounts[seed].exists

\* init_if_needed: the Guardian account as the handler sees it, zeroed when
\* it is created by this instruction
init_if_needed(g) ==
    IF guardian[g].exists THEN guardian[g]
    ELSE [exists |-> TRUE, pubkey |-> "none", is_active |-> FALSE]

sol_remove_allowed(count) == count >= bridge_state.guardian_threshold

sol_threshold_allowed(new_threshold) == new_threshold <= bridge_state.guardian_count

enough_signatures(guardian_signatures) ==
    Len(guardian_signatures) >= bridge_state.guardian_threshold

\* The outcome of each instruction: "Ok", or the error that aborts it.

sol_admin_result(signer) ==
    IF ~has_one_authority(signer) THEN "ConstraintHasOne" ELSE "Ok"

\* The handler clears is_active and decrements guardian_count before it
\* compares the count with the threshold; an Err discards both writes.
sol_remove_guardian_result(signer, g) ==
    IF ~has_one_authority(signer) THEN "ConstraintHasOne"
    ELSE IF ~init_if_needed(g).is_active THEN "GuardianNotActive"
    ELSE IF bridge_state.guardian_count = 0 THEN "ArithmeticOverflow"
    ELSE IF ~sol_remove_allowed(bridge_state.guardian_count - 1)
         THEN "InsufficientGuardians"
    ELSE "Ok"

sol_update_threshold_result(signer, new_threshold) ==
    IF ~has_one_authority(signer) THEN "ConstraintHasOne"
    ELSE IF ~sol_threshold_allowed(new_threshold) THEN "ThresholdTooHigh"
    ELSE "Ok"

sol_deposit_sol_result(amount) ==
    IF ~init_account(deposit, bridge_state.deposit_nonce) THEN "AccountInUse"
    ELSE IF bridge_state.is_paused THEN "BridgePaused"
    ELSE IF ~(amount >= SOL_MIN_DEPOSIT) THEN "AmountTooSmall"
    ELSE IF ~(amount <= SOL_MAX_DEPOSIT) THEN "AmountTooLarge"
    ELSE "Ok"

sol_deposit_token_result(amount) ==
    IF ~init_account(token_deposit, bridge_state.deposit_nonce) THEN "AccountInUse"
    ELSE IF bridge_state.is_paused THEN "BridgePaused"
    ELSE IF ~(amount >= SOL_MIN_DEPOSIT) THEN "AmountTooSmall"
    ELSE "Ok"

\* guardian_signatures is only counted.  The Withdrawal account is created
\* by this instruction, so it never reads as processed.  The debit of the
\* vault fails the transaction when the vault holds less than `amount`;
\* the vault is taken to be an account whose lamports the program may debit.
sol_process_withdrawal_result(withdrawal_hash, amount, guardian_signatures) ==
    IF ~init_account(withdrawal, withdrawal_hash) THEN "AccountInUse"
    ELSE IF bridge_state.is_paused THEN "BridgePaused"
    ELSE IF ~enough_signatures(guardian_signatures) THEN "InsufficientSignatures"
    ELSE IF amount > vault THEN "InsufficientFunds"
    ELSE "Ok"

sol_add_guardian(signer, g, guardian_pubkey) ==
    /\ chain = "solana"
    /\ bridge_state.guardian_count < MaxGuardianCount
    /\ IF sol_admin_result(signer) # "Ok" THEN Fail
       ELSE /\ guardian' = [guardian EXCEPT ![g] =
                   [init_if_needed(g) EXCEPT
                       !.pubkey = guardian_pubkey, !.is_active = TRUE]]
            /\ bridge_state' = [bridge_state EXCEPT !.guardian_count = @ + 1]
            /\ emitted' = <<[event |-> "GuardianAdded", guardian |-> guardian_pubkey,
                             added_by |-> signer]>>
            /\ UNCHANGED <<chain, nearVars, deposit, token_deposit, withdrawal, vault,
                           delivered>>

sol_remove_guardian(signer, g) ==
    /\ chain = "solana"
    /\ IF sol_remove_guardian_result(signer, g) # "Ok" THEN Fail
       ELSE /\ guardian' = [guardian EXCEPT ![g].is_active = FALSE]
            /\ bridge_state' = [bridge_state EXCEPT !.guardian_count = @ - 1]
            /\ emitted' = <<[event |-> "GuardianRemoved", guardian |-> guardian[g].pubkey,
                             removed_by |-> signer]>>
            /\ UNCHANGED <<chain, nearVars, deposit, token_deposit, withdrawal, vault,
                           delivered>>

sol_deposit_sol(depositor, amount, commitment) ==
    /\ chain = "solana"
    /\ bridge_state.deposit_nonce < MaxDeposits
    /\ IF sol_deposit_sol_result(amount) # "Ok" THEN Fail
       ELSE LET nonce == bridge_state.deposit_nonce IN
            /\ vault' = vault + amount
            /\ deposit' = [deposit EXCEPT ![nonce] =
                   [exists |-> TRUE, depositor |-> depositor, commitment |-> commitment,
                    amount |-> amount, nonce |-> nonce, processed |-> FALSE]]
            /\ bridge_state' = [bridge_state EXCEPT
                   !.deposit_nonce = @ + 1,
                   !.total_deposited = @ + amount]
            /\ emitted' = <<DepositEvent(depositor, commitment, amount, nonce)>>
            /\ UNCHANGED <<chain, nearVars, guardian, token_deposit, withdrawal,
                           delivered>>

\* The tokens go to the vault token account of the mint, not to the SOL vault.
sol_deposit_token(depositor, amount, commitment) ==
    /\ chain = "solana"
    /\ bridge_state.deposit_nonce < MaxDeposits
    /\ IF sol_deposit_token_result(amount) # "Ok" THEN Fail
       ELSE LET nonce == bridge_state.deposit_nonce IN
            /\ token_deposit' = [token_deposit EXCEPT ![nonce] =
                   [exists |-> TRUE, depositor |-> depositor, mint |-> "mint",
                    commitment |-> commitment, amount |-> amount, nonce |-> nonce,
                    processed |-> FALSE]]
            /\ bridge_state' = [bridge_state EXCEPT !.deposit_nonce = @ + 1]
            /\ emitted' = <<[event |-> "TokenDepositEvent", depositor |-> depositor,
                             mint |-> "mint", commitment |-> commitment,
                             amount |-> amount, nonce |-> nonce]>>
            /\ UNCHANGED <<chain, nearVars, guardian, deposit, withdrawal, vault,
                           delivered>>

sol_process_withdrawal(payer, withdrawal_hash, recipient, amount, guardian_signatures) ==
    /\ chain = "solana"
    /\ IF sol_process_withdrawal_result(withdrawal_hash, amount, guardian_signatures) # "Ok"
       THEN Fail
       ELSE /\ withdrawal' = [withdrawal EXCEPT ![withdrawal_hash] =
                   [exists |-> TRUE, withdrawal_hash |-> withdrawal_hash,
                    recipient |-> recipient, amount |-> amount, processed |-> TRUE]]
            /\ vault' = vault - amount
            /\ delivered' = delivered \cup {withdrawal_hash}
            /\ bridge_state' = [bridge_state EXCEPT !.total_withdrawn = @ + amount]
            /\ emitted' = <<[event |-> "WithdrawalEvent",
                             withdrawal_hash |-> withdrawal_hash,
                             recipient |-> recipient, amount |-> amount]>>
            /\ UNCHANGED <<chain, nearVars, guardian, deposit, token_deposit>>

sol_pause(signer) ==
    /\ chain = "solana"
    /\ IF sol_admin_result(signer) # "Ok" THEN Fail
       ELSE /\ bridge_state' = [bridge_state EXCEPT !.is_paused = TRUE]
            /\ UNCHANGED <<chain, nearVars, guardian, deposit, token_deposit, withdrawal,
                           vault, delivered, emitted>>

sol_unpause(signer) ==
    /\ chain = "solana"
    /\ IF sol_admin_result(signer) # "Ok" THEN Fail
       ELSE /\ bridge_state' = [bridge_state EXCEPT !.is_paused = FALSE]
            /\ UNCHANGED <<chain, nearVars, guardian, deposit, token_deposit, withdrawal,
                           vault, delivered, emitted>>

\* The event reads bridge.guardian_threshold after the assignment.
sol_update_threshold(signer, new_threshold) ==
    /\ chain = "solana"
    /\ IF sol_update_threshold_result(signer, new_threshold) # "Ok" THEN Fail
       ELSE /\ bridge_state' = [bridge_state EXCEPT !.guardian_threshold = new_threshold]
            /\ emitted' = <<[event |-> "ThresholdUpdated",
                             old_threshold |-> bridge_state'.guardian_threshold,
                             new_threshold |-> new_threshold]>>
            /\ UNCHANGED <<chain, nearVars, guardian, deposit, token_deposit, withdrawal,
                           vault, delivered>>

SolNext ==
    \/ \E s \in Pubkey, g \in GuardianKeys : sol_add_guardian(s, g, g)
    \/ \E s \in Pubkey, g \in GuardianKeys : sol_remove_guardian(s, g)
    \/ \E d \in SolDepositors, a \in SolDepositAmounts, k \in SolCommitments :
           sol_deposit_sol(d, a, k)
    \/ \E d \in SolDepositors, a \in SolDepositAmounts, k \in SolCommitments :
           sol_deposit_token(d, a, k)
    \/ \E p \in SolPayers, h \in Hashes, r \in SolRecipients, a \in WithdrawAmounts,
          sigs \in ApprovalLists : sol_process_withdrawal(p, h, r, a, sigs)
    \/ \E s \in Pubkey : sol_pause(s)
    \/ \E s \in Pubkey : sol_unpause(s)
    \/ \E s \in Pubkey, n \in Thresholds : sol_update_threshold(s, n)

----------------------------------------------------------------------------

InitNear ==
    /\ chain = "near"
    /\ \E t \in 0 .. MaxThreshold : near = NearInit(t)
    /\ bridge_state = NoAccount
    /\ account_balance = InitialBalance
    /\ vault = 0

InitSolana ==
    /\ chain = "solana"
    /\ near = NoAccount
    /\ \E t \in 0 .. MaxThreshold : bridge_state = SolInit(t)
    /\ account_balance = 0
    /\ vault = InitialBalance

InitAccounts ==
    /\ receipts = {}
    /\ guardian = [g \in GuardianKeys |-> NoAccount]
    /\ deposit = [n \in 0 .. MaxDeposits |-> NoAccount]
    /\ token_deposit = [n \in 0 .. MaxDeposits |-> NoAccount]
    /\ withdrawal = [h \in Hashes |-> NoAccount]
    /\ delivered = {}
    /\ emitted = <<>>

Init == (InitNear \/ InitSolana) /\ InitAccounts

Next == NearNext \/ SolNext

Spec == Init /\ [][Next]_vars

\* One contract at a time
InitNearOnly == InitNear /\ InitAccounts

InitSolanaOnly == InitSolana /\ InitAccounts

SpecNear == InitNearOnly /\ [][NearNext]_vars

SpecSolana == InitSolanaOnly /\ [][SolNext]_vars

----------------------------------------------------------------------------
(* Properties *)

Processed(h) ==
    IF chain = "near" THEN h \in near.processed_withdrawals ELSE withdrawal[h].exists

TotalWithdrawn ==
    IF chain = "near" THEN near.total_withdrawn ELSE bridge_state.total_withdrawn

\* The keys registered as active guardians (Solana)
ActiveGuardians ==
    {guardian[g].pubkey : g \in {x \in GuardianKeys : guardian[x].exists /\ guardian[x].is_active}}

\* The approvals form a quorum: at least guardian_threshold of them, each a
\* valid signature over the claim, by pairwise distinct active guardians.
ValidApprovals(sigs) ==
    /\ Len(sigs) >= bridge_state.guardian_threshold
    /\ \A i \in DOMAIN sigs : sigs[i].signer \in ActiveGuardians
    /\ \A i, j \in DOMAIN sigs : i # j => sigs[i].signer # sigs[j].signer

\* C1 (Solana): every successful process_withdrawal was given a quorum of
\* valid approvals by pairwise distinct active guardians; a call whose
\* approvals are not such a quorum releases nothing.
C1_QuorumAuthorizes ==
    [][\A p \in SolPayers, h \in Hashes, r \in SolRecipients, a \in WithdrawAmounts,
          sigs \in ApprovalLists :
            (sol_process_withdrawal(p, h, r, a, sigs) /\ vault' # vault)
                => ValidApprovals(sigs)]_vars

\* C2 (NEAR): process_withdrawal succeeds only for a caller that is in the
\* guardian set at the moment of the call; for any other caller the call is
\* rejected and the withdrawal replay set, total_withdrawn and the event log
\* stay as they were.
C2_OnlyGuardiansWithdraw ==
    /\ [](chain = "near" =>
            \A c \in ExistingAccounts, h \in Hashes, a \in WithdrawAmounts :
                near_process_withdrawal_result(c, h, a) = "Ok" => c \in near.guardians)
    /\ [][\A c \in ExistingAccounts, h \in Hashes, r \in Recipients, a \in WithdrawAmounts :
            (near_process_withdrawal(c, h, r, a) /\ c \notin near.guardians)
                => /\ near'.processed_withdrawals = near.processed_withdrawals
                   /\ near'.total_withdrawn = near.total_withdrawn
                   /\ emitted' = emitted]_vars

\* A guardian has processed a withdrawal while another account is no guardian
C2_Witness ==
    /\ chain = "near"
    /\ near.processed_withdrawals # {}
    /\ near.guardians # {}
    /\ \E c \in ExistingAccounts : c \notin near.guardians

C3_ReplayRejected ==
    \A h \in Hashes : Processed(h) =>
        IF chain = "near"
        THEN \A c \in ExistingAccounts, a \in WithdrawAmounts :
                LET res == near_process_withdrawal_result(c, h, a) IN
                /\ res # "Ok"
                /\ (~near.is_paused /\ c \in near.guardians)
                      => res = "Withdrawal already processed"
        ELSE \A a \in WithdrawAmounts, sigs \in ApprovalLists :
                sol_process_withdrawal_result(h, a, sigs) # "Ok"

C3_PaidOnce ==
    LET new == {h \in Hashes : ~Processed(h) /\ Processed(h)'} IN
    /\ \A h \in Hashes : Processed(h) => Processed(h)'
    /\ IF new = {} THEN TotalWithdrawn' = TotalWithdrawn
       ELSE \E h \in new :
              /\ new = {h}
              /\ Len(emitted') = 1
              /\ emitted'[1].event = "WithdrawalEvent"
              /\ emitted'[1].withdrawal_hash = h
              /\ TotalWithdrawn' = TotalWithdrawn + emitted'[1].amount

C4_AlwaysCommitmentReused ==
    chain = "near" =>
        \A k \in Commitments, a \in DepositAmounts :
            k \in near.processed_deposits => near_deposit_result(k, a) = "Commitment already used"

C4_ReuseRejected ==
    chain = "near" =>
        \A k \in Commitments, a \in DepositAmounts :
            k \in near.processed_deposits =>
                LET res == near_deposit_result(k, a) IN
                /\ res # "Ok"
                /\ (~near.is_paused /\ MIN_DEPOSIT <= a /\ a <= MAX_DEPOSIT)
                      => res = "Commitment already used"

C4_ReuseChangesNothing ==
    \A c \in Depositors, k \in Commitments, a \in DepositAmounts :
        (k \in near.processed_deposits /\ near_deposit(c, k, a))
            => UNCHANGED <<near, account_balance, emitted>>

\* C4 (NEAR, amended): a deposit whose commitment was already consumed
\* always fails and leaves total_deposited, deposit_nonce, the journal and
\* the replay set as they were; the failure is "Commitment already used"
\* when the bridge is active and the amount within MIN_DEPOSIT..MAX_DEPOSIT
\* (pause and amount are checked first).
C4_ConsumedCommitmentRejected == []C4_ReuseRejected /\ [][C4_ReuseChangesNothing]_vars

\* A commitment is consumed and the bridge is active
C4_Witness ==
    /\ chain = "near"
    /\ near.deposit_nonce >= 1
    /\ "c1" \in near.processed_deposits
    /\ ~near.is_paused

\* The admitted deposit records (Solana): Deposit and TokenDeposit accounts
SolDepositRecords ==
    {[kind |-> "sol", nonce |-> n] : n \in {x \in DOMAIN deposit : deposit[x].exists}}
    \cup {[kind |-> "token", nonce |-> n] :
            n \in {x \in DOMAIN token_deposit : token_deposit[x].exists}}

SolCommitmentOf(rec) ==
    IF rec.kind = "sol" THEN deposit[rec.nonce].commitment
    ELSE token_deposit[rec.nonce].commitment

\* C5 (Solana): no two admitted deposit records carry the same commitment.
C5_OneShotCommitments ==
    \A x, y \in SolDepositRecords : x # y => SolCommitmentOf(x) # SolCommitmentOf(y)

\* C6 (both): guardian_threshold <= number of guardians in every reachable
\* state, the state produced by initialization included.
C6_ThresholdWithinGuardians ==
    IF chain = "near" THEN near.guardian_threshold <= guardian_count
    ELSE bridge_state.guardian_threshold <= bridge_state.guardian_count

C7_RemoveDecision ==
    IF chain = "near"
    THEN \A g \in near.guardians :
            near_remove_guardian_result(near.owner_id, g) =
                IF guardian_count - 1 >= near.guardian_threshold THEN "Ok"
                ELSE "Cannot remove: would go below threshold"
    ELSE \A g \in GuardianKeys : (guardian[g].exists /\ guardian[g].is_active) =>
            sol_remove_guardian_result(bridge_state.authority, g) =
                IF bridge_state.guardian_count - 1 >= bridge_state.guardian_threshold
                THEN "Ok" ELSE "InsufficientGuardians"

C7_RemoveEffect ==
    IF chain = "near"
    THEN \A g \in near.guardians :
            near_remove_guardian(near.owner_id, g) =>
                /\ near'.guardian_threshold = near.guardian_threshold
                /\ IF guardian_count - 1 >= near.guardian_threshold
                   THEN /\ near'.guardians = near.guardians \ {g}
                        /\ Cardinality(near'.guardians) = guardian_count - 1
                   ELSE near'.guardians = near.guardians
    ELSE \A g \in GuardianKeys :
            (guardian[g].exists /\ guardian[g].is_active
             /\ sol_remove_guardian(bridge_state.authority, g)) =>
                /\ bridge_state'.guardian_threshold = bridge_state.guardian_threshold
                /\ IF bridge_state.guardian_count - 1 >= bridge_state.guardian_threshold
                   THEN /\ ~guardian'[g].is_active
                        /\ \A x \in GuardianKeys \ {g} : guardian'[x] = guardian[x]
                        /\ bridge_state'.guardian_count = bridge_state.guardian_count - 1
                   ELSE /\ guardian' = guardian
                        /\ bridge_state'.guardian_count = bridge_state.guardian_count

\* C7 (both): remove_guardian(g) by the owner for a current guardian g
\* succeeds exactly when (count - 1) >= threshold, and then removes g and
\* lowers the count by one; otherwise it fails with the quorum error and
\* the guardian set, the count and the threshold are unchanged.
C7_RemoveKeepsQuorum == []C7_RemoveDecision /\ [][C7_RemoveEffect]_vars

\* A guardian was just removed and removing the next one would be refused
C7_Witness ==
    /\ chain = "near"
    /\ Len(emitted) = 1
    /\ emitted[1].event = "GuardianEvent"
    /\ emitted[1].action = "removed"
    /\ near.guardians # {}
    /\ guardian_count = near.guardian_threshold

C8_ThresholdDecision ==
    IF chain = "near"
    THEN \A n \in Thresholds :
            near_update_threshold_result(near.owner_id, n) =
                IF n > guardian_count THEN "Threshold cannot exceed guardian count"
                ELSE "Ok"
    ELSE \A n \in Thresholds :
            sol_update_threshold_result(bridge_state.authority, n) =
                IF n > bridge_state.guardian_count THEN "ThresholdTooHigh" ELSE "Ok"

C8_ThresholdEffect ==
    \A n \in Thresholds :
        IF chain = "near"
        THEN near_update_threshold(near.owner_id, n) =>
                /\ near'.guardians = near.guardians
                /\ near'.guardian_threshold =
                      IF n > guardian_count THEN near.guardian_threshold ELSE n
        ELSE sol_update_threshold(bridge_state.authority, n) =>
                /\ guardian' = guardian
                /\ bridge_state'.guardian_count = bridge_state.guardian_count
                /\ bridge_state'.guardian_threshold =
                      IF n > bridge_state.guardian_count
                      THEN bridge_state.guardian_threshold ELSE n

\* C8 (both): update_threshold(n) by the owner fails with the quorum error
\* and leaves the threshold unchanged when n exceeds the current guardian
\* count; otherwise it sets the threshold to exactly n (0 included) and
\* does not change the guardian set.
C8_UpdateThreshold == []C8_ThresholdDecision /\ [][C8_ThresholdEffect]_vars

\* The threshold was just lowered to 0 while a guardian is registered
C8_Witness ==
    /\ chain = "solana"
    /\ Len(emitted) = 1
    /\ emitted[1].event = "ThresholdUpdated"
    /\ emitted[1].new_threshold = 0
    /\ bridge_state.guardian_threshold = 0
    /\ bridge_state.guardian_count >= 1

\* C9 (both): a process_withdrawal whose transfer to the recipient fails
\* leaves no trace: in no state is a claim marked consumed unless its funds
\* reached the recipient or the transfer is still being carried out.
C9_ConsumedMeansPaid ==
    \A h \in Hashes : Processed(h) =>
        \/ h \in delivered
        \/ \E r \in receipts : r.claim = h

\* C10 (both): while the bridge is paused every deposit operation and every
\* process_withdrawal fails with BridgePaused (the owner's operations never
\* consult the flag).
C10_PausedRejectsWithBridgePaused ==
    IF chain = "near"
    THEN near.is_paused =>
            /\ \A k \in Commitments, a \in DepositAmounts :
                  near_deposit_result(k, a) = "Bridge is paused"
            /\ \A c \in ExistingAccounts, h \in Hashes, a \in WithdrawAmounts :
                  near_process_withdrawal_result(c, h, a) = "Bridge is paused"
    ELSE bridge_state.is_paused =>
            /\ \A a \in SolDepositAmounts :
                  /\ sol_deposit_sol_result(a) = "BridgePaused"
                  /\ sol_deposit_token_result(a) = "BridgePaused"
            /\ \A h \in Hashes, a \in WithdrawAmounts, sigs \in ApprovalLists :
                  sol_process_withdrawal_result(h, a, sigs) = "BridgePaused"

NotOwner == "Only owner can call this method"

C11_NonOwnerDecision ==
    IF chain = "near"
    THEN \A c \in ExistingAccounts : c # near.owner_id =>
            /\ \A g \in AccountId :
                  /\ near_add_guardian_result(c, g) = NotOwner
                  /\ near_remove_guardian_result(c, g) = NotOwner
            /\ \A n \in Thresholds : near_update_threshold_result(c, n) = NotOwner
            /\ near_admin_result(c) = NotOwner
    ELSE \A s \in Pubkey : s # bridge_state.authority =>
            /\ sol_admin_result(s) = "ConstraintHasOne"
            /\ \A g \in GuardianKeys : sol_remove_guardian_result(s, g) = "ConstraintHasOne"
            /\ \A n \in Thresholds : sol_update_threshold_result(s, n) = "ConstraintHasOne"

C11_NonOwnerEffect ==
    IF chain = "near"
    THEN \A c \in ExistingAccounts :
            (/\ c # near.owner_id
             /\ \/ \E g \in AccountId : near_add_guardian(c, g) \/ near_remove_guardian(c, g)
                \/ \E n \in Thresholds : near_update_threshold(c, n)
                \/ near_pause(c) \/ near_unpause(c)
                \/ \E o \in AccountId : near_transfer_ownership(c, o))
            => /\ near'.owner_id = near.owner_id
               /\ near'.guardians = near.guardians
               /\ near'.guardian_threshold = near.guardian_threshold
               /\ near'.is_paused = near.is_paused
    ELSE \A s \in Pubkey :
            (/\ s # bridge_state.authority
             /\ \/ \E g \in GuardianKeys : sol_add_guardian(s, g, g) \/ sol_remove_guardian(s, g)
                \/ \E n \in Thresholds : sol_update_threshold(s, n)
                \/ sol_pause(s) \/ sol_unpause(s))
            => /\ bridge_state' = bridge_state
               /\ guardian' = guardian

\* C11 (both): every admin operation called by an account other than the
\* current owner fails with the not-owner error and leaves the owner, the
\* guardian set, the threshold and the pause flag unchanged.
C11_AdminOnlyByOwner == []C11_NonOwnerDecision /\ [][C11_NonOwnerEffect]_vars

\* Ownership has moved to a1, so the former owner a0 is now a stranger,
\* and admin operations have acted
C11_Witness ==
    /\ chain = "near"
    /\ near.owner_id = "a1"
    /\ near.is_paused
    /\ near.guardians # {}

DepositNonce ==
    IF chain = "near" THEN near.deposit_nonce ELSE bridge_state.deposit_nonce

\* The deposit record kept under key n: a journal entry on NEAR, a Deposit
\* or TokenDeposit account on Solana; NoAccount when there is none
RecordAt(n) ==
    IF chain = "near" THEN get_deposit(n)
    ELSE IF deposit[n].exists THEN deposit[n]
    ELSE token_deposit[n]

HasRecord(n) ==
    IF chain = "near" THEN n \in DOMAIN near.deposits
    ELSE deposit[n].exists \/ token_deposit[n].exists

DepositLedger ==
    IF chain = "near" THEN <<near.deposits>> ELSE <<deposit, token_deposit>>

C12_NonceStep ==
    /\ DepositNonce' \in {DepositNonce, DepositNonce + 1}
    /\ IF DepositNonce' = DepositNonce
       THEN DepositLedger' = DepositLedger
       ELSE \E cur \in 0 .. MaxDeposits :
            /\ cur = DepositNonce
            /\ ~HasRecord(cur)
            /\ HasRecord(cur)'
            /\ RecordAt(cur)'.nonce = cur
            /\ \A n \in 0 .. MaxDeposits : n # cur => RecordAt(n)' = RecordAt(n)
            /\ Len(emitted') = 1
            /\ emitted'[1].event \in {"DepositEvent", "TokenDepositEvent"}
            /\ emitted'[1].nonce = cur

\* C12 (both): the nonces given to successful deposits are 0, 1, 2, ... in
\* call order: the counter starts at 0, a successful deposit files its
\* record under the current counter value and raises the counter by one,
\* and every other step (a failed deposit included) leaves counter and
\* journal alone.
C12_NoncesDenseInCallOrder == [](DepositNonce = 0 => \A n \in 0 .. MaxDeposits : ~HasRecord(n))
                              /\ [][C12_NonceStep]_vars

\* The second successful deposit was just given nonce 1
C12_Witness ==
    /\ DepositNonce = 2
    /\ Len(emitted) = 1
    /\ emitted[1].event \in {"DepositEvent", "TokenDepositEvent"}
    /\ emitted[1].nonce = 1
    /\ RecordAt(0).nonce = 0

TotalDeposited ==
    IF chain = "near" THEN near.total_deposited ELSE bridge_state.total_deposited

RECURSIVE SumAmounts(_, _)
\* The sum of f[n].amount over the keys n in `keys`
SumAmounts(f, keys) ==
    IF keys = {} THEN 0
    ELSE LET n == CHOOSE x \in keys : TRUE IN f[n].amount + SumAmounts(f, keys \ {n})

\* Amounts of the native-currency deposit records: the NEAR journal, the
\* Solana Deposit accounts
NativeDepositSum ==
    IF chain = "near" THEN SumAmounts(near.deposits, DOMAIN near.deposits)
    ELSE SumAmounts(deposit, {n \in DOMAIN deposit : deposit[n].exists})

TokenDepositSum ==
    IF chain = "near" THEN 0
    ELSE SumAmounts(token_deposit, {n \in DOMAIN token_deposit : token_deposit[n].exists})

\* C13 as stated: total_deposited equals the sum of the amounts of all
\* deposit records admitted so far, those of deposit_token included.
C13_TotalMatchesAllRecords == TotalDeposited = NativeDepositSum + TokenDepositSum

\* C13 (both, amended): total_deposited equals the sum of the amounts of
\* the native-currency deposit records admitted so far (NEAR deposit,
\* Solana deposit_sol); a deposit_token record is not counted in it.
C13_TotalMatchesNativeRecords == TotalDeposited = NativeDepositSum

\* A SOL deposit and a token deposit have both been admitted
C13_Witness ==
    /\ chain = "solana"
    /\ \E n \in DOMAIN deposit : deposit[n].exists
    /\ \E n \in DOMAIN token_deposit : token_deposit[n].exists
    /\ TotalDeposited >= SOL_MIN_DEPOSIT

\* C14 (both): a deposit with amount < MIN_DEPOSIT or amount > MAX_DEPOSIT
\* is never admitted: every deposit record (NEAR journal entry, Solana
\* Deposit and TokenDeposit account) has MIN_DEPOSIT <= amount <= MAX_DEPOSIT.
C14_AdmittedAmountsInRange ==
    IF chain = "near"
    THEN \A n \in DOMAIN near.deposits :
            MIN_DEPOSIT <= near.deposits[n].amount /\ near.deposits[n].amount <= MAX_DEPOSIT
    ELSE \A n \in DOMAIN deposit :
            /\ deposit[n].exists =>
                  SOL_MIN_DEPOSIT <= deposit[n].amount /\ deposit[n].amount <= SOL_MAX_DEPOSIT
            /\ token_deposit[n].exists =>
                  /\ SOL_MIN_DEPOSIT <= token_deposit[n].amount
                  /\ token_deposit[n].amount <= SOL_MAX_DEPOSIT

C15_DepositEvent ==
    \E cur \in 0 .. MaxDeposits :
        /\ cur = DepositNonce
        /\ Len(emitted') = 1
        /\ emitted'[1].event \in {"DepositEvent", "TokenDepositEvent"}
        /\ emitted'[1].depositor = RecordAt(cur)'.depositor
        /\ emitted'[1].commitment = RecordAt(cur)'.commitment
        /\ emitted'[1].amount = RecordAt(cur)'.amount
        /\ emitted'[1].nonce = RecordAt(cur)'.nonce

C15_WithdrawalEvent ==
    \E h \in Hashes :
        /\ ~Processed(h) /\ Processed(h)'
        /\ Len(emitted') = 1
        /\ emitted'[1].event = "WithdrawalEvent"
        /\ emitted'[1].withdrawal_hash = h
        /\ emitted'[1].amount = TotalWithdrawn' - TotalWithdrawn
        /\ IF chain = "near"
           THEN \E r \in receipts' \ receipts :
                   /\ r.claim = h
                   /\ r.receiver = emitted'[1].recipient
                   /\ r.amount = emitted'[1].amount
           ELSE /\ withdrawal'[h].withdrawal_hash = h
                /\ withdrawal'[h].recipient = emitted'[1].recipient
                /\ withdrawal'[h].amount = emitted'[1].amount

C15_GuardianChanged ==
    IF chain = "near" THEN near'.guardians # near.guardians
    ELSE bridge_state'.guardian_count # bridge_state.guardian_count

C15_GuardianEvent ==
    /\ Len(emitted') = 1
    /\ IF chain = "near"
       THEN /\ emitted'[1].event = "GuardianEvent"
            /\ emitted'[1].by = near.owner_id
            /\ \/ /\ emitted'[1].action = "added"
                  /\ emitted'[1].guardian \notin near.guardians
                  /\ near'.guardians = near.guardians \cup {emitted'[1].guardian}
               \/ /\ emitted'[1].action = "removed"
                  /\ emitted'[1].guardian \in near.guardians
                  /\ near'.guardians = near.guardians \ {emitted'[1].guardian}
       ELSE \E g \in GuardianKeys :
            /\ \A x \in GuardianKeys \ {g} : guardian'[x] = guardian[x]
            /\ \/ /\ emitted'[1].event = "GuardianAdded"
                  /\ emitted'[1].added_by = bridge_state.authority
                  /\ guardian'[g].exists /\ guardian'[g].is_active
                  /\ emitted'[1].guardian = guardian'[g].pubkey
                  /\ bridge_state'.guardian_count = bridge_state.guardian_count + 1
               \/ /\ emitted'[1].event = "GuardianRemoved"
                  /\ emitted'[1].removed_by = bridge_state.authority
                  /\ guardian[g].exists /\ guardian[g].is_active
                  /\ ~guardian'[g].is_active
                  /\ emitted'[1].guardian = guardian[g].pubkey
                  /\ bridge_state'.guardian_count = bridge_state.guardian_count - 1

C15_EventStep ==
    IF DepositNonce' # DepositNonce THEN C15_DepositEvent
    ELSE IF \E h \in Hashes : ~Processed(h) /\ Processed(h)' THEN C15_WithdrawalEvent
    ELSE IF C15_GuardianChanged THEN C15_GuardianEvent
    ELSE \/ emitted' = emitted
         \/ Len(emitted') = 1 /\ emitted'[1].event = "ThresholdUpdated"

IsActiveGuardian(g) == guardian[g].exists /\ guardian[g].is_active

\* C16 (both): an add_guardian(g) by the owner takes effect only when g is
\* not yet a guardian, and then g becomes a member and the guardian count
\* grows by exactly 1; for a g that is already a guardian the call fails
\* and changes nothing.
C16_AddOnlyNewGuardians ==
    [][IF chain = "near"
       THEN \A g \in AccountId :
               near_add_guardian(near.owner_id, g) =>
                   /\ g \notin near.guardians
                   /\ near'.guardians = near.guardians \cup {g}
                   /\ Cardinality(near'.guardians) = guardian_count + 1
       ELSE \A g \in GuardianKeys :
               sol_add_guardian(bridge_state.authority, g, g) =>
                   /\ ~IsActiveGuardian(g)
                   /\ IsActiveGuardian(g)'
                   /\ bridge_state'.guardian_count = bridge_state.guardian_count + 1]_vars

IsPaused == IF chain = "near" THEN near.is_paused ELSE bridge_state.is_paused

C17_PauseStep ==
    /\ IF chain = "near"
       THEN /\ near_pause(near.owner_id) => IsPaused'
            /\ near_unpause(near.owner_id) => ~IsPaused'
       ELSE /\ sol_pause(bridge_state.authority) => IsPaused'
            /\ sol_unpause(bridge_state.authority) => ~IsPaused'
    /\ IsPaused' # IsPaused =>
          IF chain = "near"
          THEN IF IsPaused' THEN near_pause(near.owner_id) ELSE near_unpause(near.owner_id)
          ELSE IF IsPaused' THEN sol_pause(bridge_state.authority)
               ELSE sol_unpause(bridge_state.authority)

\* C17 (both): the bridge starts Active, is Paused after every successful
\* pause and Active after every successful unpause, and only a pause or an
\* unpause by the owner changes the pause flag.
C17_PauseStateMachine == ~IsPaused /\ [][C17_PauseStep]_vars

\* The bridge is paused after deposits were taken
C17_Witness ==
    /\ IsPaused
    /\ DepositNonce >= 1

C18_NearJournalDense ==
    /\ DOMAIN near.deposits = 0 .. (near.deposit_nonce - 1)
    /\ \A n \in 0 .. MaxDeposits :
          IF n < near.deposit_nonce
          THEN get_deposit(n) # NoAccount /\ get_deposit(n).nonce = n
          ELSE get_deposit(n) = NoAccount

\* C18 as stated: the journal holds a record for exactly the nonces
\* 0 .. deposit_nonce-1, the Solana journal being the Deposit accounts.
C18_DepositAccountsDense ==
    IF chain = "near" THEN C18_NearJournalDense
    ELSE \A n \in 0 .. MaxDeposits :
            IF n < bridge_state.deposit_nonce
            THEN deposit[n].exists /\ deposit[n].nonce = n
            ELSE ~deposit[n].exists

\* C18 (both, amended): the journal holds a record for exactly the nonces
\* 0 .. deposit_nonce-1, the record under key n has nonce field n, and
\* there is none for a nonce >= deposit_nonce; on Solana the journal is the
\* Deposit and TokenDeposit accounts together, each nonce below the counter
\* having exactly one of the two.
C18_JournalDense ==
    IF chain = "near" THEN C18_NearJournalDense
    ELSE \A n \in 0 .. MaxDeposits :
            IF n < bridge_state.deposit_nonce
            THEN /\ deposit[n].exists # token_deposit[n].exists
                 /\ RecordAt(n).nonce = n
            ELSE ~deposit[n].exists /\ ~token_deposit[n].exists

\* A token deposit took nonce 0 and a SOL deposit nonce 1
C18_Witness ==
    /\ chain = "solana"
    /\ bridge_state.deposit_nonce = 2
    /\ token_deposit[0].exists
    /\ deposit[1].exists

\* The claims whose funds have been sent: a transfer is in flight or arrived
Sent ==
    {h \in Hashes : h \in delivered \/ \E r \in receipts : r.claim = h}

\* C19 (both): no reachable state has funds sent for a claim that is absent
\* from the withdrawal replay set, and total_withdrawn already counts every
\* transfer initiated; a retry of a sent claim is rejected unchanged.
C19_SentOnlyAfterConsumed ==
    /\ \A h \in Sent :
          /\ IF chain = "near" THEN h \in near.processed_withdrawals
             ELSE withdrawal[h].exists /\ withdrawal[h].processed
          /\ IF chain = "near"
             THEN \A c \in ExistingAccounts, a \in WithdrawAmounts :
                     near_process_withdrawal_result(c, h, a) # "Ok"
             ELSE \A a \in WithdrawAmounts, sigs \in ApprovalLists :
                     sol_process_withdrawal_result(h, a, sigs) # "Ok"
    /\ \A a \in WithdrawAmounts : TotalWithdrawn >= a * Cardinality(Sent)

\* A NEAR transfer is in flight for a claim already in the replay set
C19_Witness ==
    /\ chain = "near"
    /\ \E r \in receipts : r.claim \in near.processed_withdrawals
    /\ near.total_withdrawn > 0

\* C20 (Solana): the ThresholdUpdated event of a successful
\* update_threshold(n) carries as old_threshold the threshold in force
\* before the call and as new_threshold the value n.
C20_OldThresholdReported ==
    [][\A s \in Pubkey, n \in Thresholds :
          (/\ chain = "solana"
           /\ sol_update_threshold_result(s, n) = "Ok"
           /\ sol_update_threshold(s, n))
          => /\ Len(emitted') = 1
             /\ emitted'[1].event = "ThresholdUpdated"
             /\ emitted'[1].old_threshold = bridge_state.guardian_threshold
             /\ emitted'[1].new_threshold = n]_vars

\* The commitments on record as consumed: NEAR processed_deposits; on Solana
\* the commitments written into the Deposit and TokenDeposit accounts
DepositReplaySet ==
    IF chain = "near" THEN near.processed_deposits
    ELSE {deposit[n].commitment : n \in {x \in DOMAIN deposit : deposit[x].exists}}
         \cup {token_deposit[n].commitment :
                 n \in {x \in DOMAIN token_deposit : token_deposit[x].exists}}

\* The claim identifiers on record as consumed: NEAR processed_withdrawals,
\* the Solana Withdrawal accounts
WithdrawalReplaySet ==
    IF chain = "near" THEN near.processed_withdrawals
    ELSE {h \in Hashes : withdrawal[h].exists /\ withdrawal[h].processed}

\* C21 (both): the two replay sets only grow: no step of any operation
\* takes a commitment out of the deposit replay set or a claim identifier
\* out of the withdrawal replay set.
C21_ReplaySetsOnlyGrow ==
    [][/\ DepositReplaySet \subseteq DepositReplaySet'
       /\ WithdrawalReplaySet \subseteq WithdrawalReplaySet']_vars

\* Both sets hold an entry, and an ownership transfer and a pause came after
C21_Witness ==
    /\ chain = "near"
    /\ near.processed_deposits = {"c1", "c2"}
    /\ near.processed_withdrawals = {"w1", "w2"}
    /\ near.is_paused
    /\ near.owner_id # "a0"

\* Every deposit record of the pre-state is there, unchanged, in the post-state
C22_RecordsKept ==
    IF chain = "near"
    THEN \A n \in DOMAIN near.deposits :
            n \in DOMAIN near'.deposits /\ near'.deposits[n] = near.deposits[n]
    ELSE \A n \in 0 .. MaxDeposits :
            /\ deposit[n].exists => deposit'[n] = deposit[n]
            /\ token_deposit[n].exists => token_deposit'[n] = token_deposit[n]

C22_NeverProcessed ==
    IF chain = "near"
    THEN \A n \in DOMAIN near.deposits : ~near.deposits[n].processed
    ELSE \A n \in 0 .. MaxDeposits :
            /\ deposit[n].exists => ~deposit[n].processed
            /\ token_deposit[n].exists => ~token_deposit[n].processed

\* C22 (both): a deposit record, once created, is never deleted and never
\* modified by a later operation (depositor, commitment, amount and nonce
\* stay as written), and its processed flag is false in every reachable state.
C22_DepositRecordsImmutable == []C22_NeverProcessed /\ [][C22_RecordsKept]_vars

\* Two records were written, then a withdrawal and a pause followed
C22_Witness ==
    /\ chain = "near"
    /\ DOMAIN near.deposits = {0, 1}
    /\ near.deposits[0].amount # near.deposits[1].amount
    /\ near.processed_withdrawals # {}
    /\ near.is_paused

\* Every admin operation called by c passes the owner check
C23_PassesOwnerCheck(c) ==
    /\ \A g \in AccountId :
          /\ near_add_guardian_result(c, g) # NotOwner
          /\ near_remove_guardian_result(c, g) # NotOwner
    /\ \A n \in Thresholds : near_update_threshold_result(c, n) # NotOwner
    /\ near_admin_result(c) # NotOwner

\* Every admin operation called by c fails with NotOwner
C23_FailsOwnerCheck(c) ==
    /\ \A g \in AccountId :
          /\ near_add_guardian_result(c, g) = NotOwner
          /\ near_remove_guardian_result(c, g) = NotOwner
    /\ \A n \in Thresholds : near_update_threshold_result(c, n) = NotOwner
    /\ near_admin_result(c) = NotOwner

C23_OwnershipStep ==
    /\ \A c \in ExistingAccounts, o \in AccountId :
          (c = near.owner_id /\ near_transfer_ownership(c, o))
          => /\ near'.owner_id = o
             /\ C23_PassesOwnerCheck(o)'
             /\ c # o => C23_FailsOwnerCheck(c)'
    /\ near'.owner_id # near.owner_id
          => \E o \in AccountId : near_transfer_ownership(near.owner_id, o)

\* C23 (NEAR): after a successful transfer_ownership(new_owner) by the
\* owner, new_owner is the owner, every admin operation of the previous
\* owner fails with NotOwner (unless the two are the same account), every
\* admin operation of new_owner passes the owner check, and no other
\* operation changes the owner.
C23_OwnershipTransfer == [][C23_OwnershipStep]_vars

\* Ownership moved to a1, and a1 has since added a guardian as the owner
C23_Witness ==
    /\ chain = "near"
    /\ near.owner_id = "a1"
    /\ Len(emitted) = 1
    /\ emitted[1].event = "GuardianEvent"
    /\ emitted[1].by = "a1"

\* C24 (Solana): guardian_count equals the number of Guardian accounts
\* whose is_active flag is true, in every reachable state.
C24_CountMatchesActiveGuardians ==
    chain = "solana" =>
        bridge_state.guardian_count =
            Cardinality({g \in GuardianKeys : guardian[g].exists /\ guardian[g].is_active})

\* C25 (both): total_withdrawn <= total_deposited in every reachable state.
C25_WithdrawnWithinDeposited ==
    IF chain = "near" THEN near.total_withdrawn <= near.total_deposited
    ELSE bridge_state.total_withdrawn <= bridge_state.total_deposited

\* The journal keys whose record carries commitment c
C26_RecordsWith(c) ==
    {n \in DOMAIN near.deposits : near.deposits[n].commitment = c}

\* C26 (NEAR): is_commitment_used(c) holds if and only if exactly one
\* journal record has commitment c, no commitment has more than one record,
\* and the number of consumed commitments equals deposit_nonce.
C26_ReplaySetMatchesJournal ==
    chain = "near" =>
        /\ \A c \in Commitments :
              /\ is_commitment_used(c) <=> Cardinality(C26_RecordsWith(c)) = 1
              /\ Cardinality(C26_RecordsWith(c)) <= 1
        /\ Cardinality({c \in Commitments : is_commitment_used(c)}) = near.deposit_nonce
        /\ Cardinality(near.processed_deposits) = near.deposit_nonce

\* One commitment is consumed and journalled, the other is not
C26_Witness ==
    /\ chain = "near"
    /\ near.deposit_nonce = 1
    /\ near.processed_deposits = {"c2"}
    /\ near.deposits[0].commitment = "c2"

\* The state the admin operations govern
AdminState ==
    IF chain = "near"
    THEN <<near.owner_id, near.guardian_threshold, near.guardians, near.is_paused>>
    ELSE <<bridge_state.authority, bridge_state.guardian_threshold,
           bridge_state.guardian_count, guardian, bridge_state.is_paused>>

\* The state the user operations keep: counter, journal, replay sets, totals
LedgerState ==
    IF chain = "near"
    THEN <<near.deposit_nonce, near.deposits, near.processed_deposits,
           near.processed_withdrawals, near.total_deposited, near.total_withdrawn>>
    ELSE <<bridge_state.deposit_nonce, deposit, token_deposit, withdrawal,
           bridge_state.total_deposited, bridge_state.total_withdrawn>>

C27_UserOperation ==
    \/ \E c \in Depositors, k \in Commitments, a \in DepositAmounts : near_deposit(c, k, a)
    \/ \E c \in ExistingAccounts, h \in Hashes, r \in Recipients, a \in WithdrawAmounts :
           near_process_withdrawal(c, h, r, a)
    \/ \E d \in SolDepositors, a \in SolDepositAmounts, k \in SolCommitments :
           sol_deposit_sol(d, a, k) \/ sol_deposit_token(d, a, k)
    \/ \E p \in SolPayers, h \in Hashes, r \in SolRecipients, a \in WithdrawAmounts,
          sigs \in ApprovalLists : sol_process_withdrawal(p, h, r, a, sigs)

C27_AdminOperation ==
    \/ \E c \in ExistingAccounts, g \in AccountId :
           near_add_guardian(c, g) \/ near_remove_guardian(c, g)
    \/ \E c \in ExistingAccounts, n \in Thresholds : near_update_threshold(c, n)
    \/ \E c \in ExistingAccounts : near_pause(c) \/ near_unpause(c)
    \/ \E c \in ExistingAccounts, o \in AccountId : near_transfer_ownership(c, o)
    \/ \E s \in Pubkey, g \in GuardianKeys :
           sol_add_guardian(s, g, g) \/ sol_remove_guardian(s, g)
    \/ \E s \in Pubkey, n \in Thresholds : sol_update_threshold(s, n)
    \/ \E s \in Pubkey : sol_pause(s) \/ sol_unpause(s)

\* C27 (both): a deposit or process_withdrawal, successful or not, leaves
\* the owner, threshold, guardian set/count and pause flag unchanged, and an
\* admin operation, successful or not, leaves deposit_nonce, the journal,
\* both replay sets, total_deposited and total_withdrawn unchanged.
\* (Each implication "operation => frame kept" is written frame first.)
C27_DisjointFrames ==
    [][/\ AdminState' = AdminState \/ ~C27_UserOperation
       /\ LedgerState' = LedgerState \/ ~C27_AdminOperation]_vars

\* Deposits and a withdrawal took place and guardians were added, a pause last
C27_Witness ==
    /\ chain = "solana"
    /\ bridge_state.deposit_nonce = 2
    /\ withdrawal["w1"].exists
    /\ bridge_state.guardian_count = 1
    /\ bridge_state.is_paused

====
